---------------------------- MODULE Spec2Model ----------------------------
(* Model of main_store.py: the Confluence action store.                    *)
(* Transport: post_wrapper / get_wrapper over requests.                    *)
(* Actions: create_page, get_parent_id, get_space_id, get_all_content,     *)
(* get_space_details, get_all_spaces, get_available_parents.               *)
(* Every action is one synchronous invocation: it builds a request, the    *)
(* remote server (the environment) answers with any response, and the      *)
(* action shapes the answer into its outcome.                              *)
EXTENDS Integers, Sequences, FiniteSets, TLC

(* ------------------------------ bounds --------------------------------- *)
\* longest page body (in characters) a request carries
MaxLen == 2
\* longest "results" list a response carries
MaxResults == 2

(* ------------------------- Python values ------------------------------- *)
\* Python's None where a str is expected (title, parentId, description);
\* no str drawn in the model equals it.
None == "None"
\* The None object as a returned value.
PyNone == [kind |-> "None"]
\* A dict (a parsed JSON object, or a dict literal) as a returned value.
PyDict(d) == [kind |-> "dict", doc |-> d]
\* A pydantic model instance as a returned value.
PyModel(c, f) == [kind |-> "model", cls |-> c, fields |-> f]
\* How a call ends: it returns a value or raises an exception.
Return(v) == [kind |-> "return", value |-> v]
Raise(e) == [kind |-> "raise", exc |-> e]
\* str(e) of an exception: its text names the exception and what it carries.
str(e) == <<"str", e>>

(* --------------------------- strings ----------------------------------- *)
\* Characters of a page body: a plain one, the double quote, the backslash.
Quote == "\""
Backslash == "\\"
Chars == {"a", Quote, Backslash}
\* all sequences over S of length at most n
RECURSIVE SeqsUpTo(_, _)
SeqsUpTo(S, n) ==
    IF n = 0 THEN {<<>>}
    ELSE LET shorter == SeqsUpTo(S, n - 1)
         IN  shorter \cup {Append(s, c) : s \in {t \in shorter : Len(t) = n - 1}, c \in S}
Bodies == SeqsUpTo(Chars, MaxLen)

(* ------------------------ json.dumps / json.loads ---------------------- *)
\* json.dumps of a str without its surrounding quotes, with no escaping
\* at all (a hand-built JSON string).
json_dumps_str_raw(s) == s
\* json.dumps of a str (without the surrounding quotes): the double quote
\* and the backslash are each escaped with a backslash.
RECURSIVE json_dumps_str(_)
json_dumps_str(s) ==
    IF s = <<>> THEN <<>>
    ELSE (IF Head(s) \in {Quote, Backslash} THEN <<Backslash, Head(s)>> ELSE <<Head(s)>>)
         \o json_dumps_str(Tail(s))
\* json.loads of a JSON string's text: a backslash makes the next character
\* literal; an unescaped double quote ends the string there.
RECURSIVE json_loads_str(_)
json_loads_str(w) ==
    IF w = <<>> THEN <<>>
    ELSE IF Head(w) = Backslash
         THEN (IF Len(w) >= 2 THEN <<w[2]>> \o json_loads_str(SubSeq(w, 3, Len(w))) ELSE <<>>)
         ELSE IF Head(w) = Quote THEN <<>>
         ELSE <<Head(w)>> \o json_loads_str(Tail(w))
\* json.dumps of an Optional[str] drawn from the atoms of the model: None
\* becomes null, a str without special characters is written as it is.
json_dumps_atom(v) == IF v = None THEN "null" ELSE v
json_loads_atom(v) == IF v = "null" THEN None ELSE v
\* json.dumps of the create_page payload: the encoding of each leaf.
json_dumps(data) ==
    [spaceId  |-> json_dumps_atom(data.spaceId),
     status   |-> json_dumps_atom(data.status),
     title    |-> json_dumps_atom(data.title),
     parentId |-> json_dumps_atom(data.parentId),
     body     |-> [representation |-> json_dumps_atom(data.body.representation),
                   value          |-> json_dumps_str(data.body.value)]]
\* What the server reads from the posted text.
json_loads(wire) ==
    [spaceId  |-> json_loads_atom(wire.spaceId),
     status   |-> json_loads_atom(wire.status),
     title    |-> json_loads_atom(wire.title),
     parentId |-> json_loads_atom(wire.parentId),
     body     |-> [representation |-> json_loads_atom(wire.body.representation),
                   value          |-> json_loads_str(wire.body.value)]]

(* ------------------------ the remote server ---------------------------- *)
NO_CONTENT == 204
\* Statuses whose response never has a body (http.client reads none for
\* 1xx, 204 and 304).
BodylessStatuses == {101, NO_CONTENT, 304}
\* Statuses whose response may carry any body; they include the edges of
\* the ranges raise_for_status tests.
BodyStatuses == {200, 300, 400, 599, 600}

\* Entries of a "results" list: spaces, pages, and a page without status.
SpaceEntries ==
    {[id |-> "1", key |-> "S1", name |-> "Space One", type |-> "global", status |-> "current"],
     [id |-> "2", key |-> "S2", name |-> "Space Two", type |-> "global", status |-> "current"],
     [id |-> "3", key |-> "S3", name |-> "Space Three", type |-> "personal", status |-> "archived"]}
PageEntries ==
    {[id |-> "10", title |-> "P", type |-> "page", status |-> "current"],
     [id |-> "11", title |-> "Q", type |-> "page", status |-> "draft"]}
StatuslessEntries == {[id |-> "12", title |-> "R", type |-> "page"]}
Entries == SpaceEntries \cup PageEntries \cup StatuslessEntries
\* JSON objects a response can carry.
ListDocs == {[results |-> r] : r \in SeqsUpTo(Entries, MaxResults)}
SpaceDocs == {[id |-> 1, key |-> k, name |-> "Space"] : k \in {"S1", "S2"}}
PageDocs == {[id |-> "10", title |-> "P"]}
Docs == ListDocs \cup SpaceDocs \cup PageDocs
\* A response body: text that is no JSON (the empty body included), or a
\* JSON object.
NotJson == [json |-> FALSE]
Json(d) == [json |-> TRUE, doc |-> d]
Contents == {NotJson} \cup {Json(d) : d \in Docs}
\* What requests.get / requests.post can end with: a network failure, or a
\* response.
NetworkFailure == [kind |-> "network"]
Responses ==
    {NetworkFailure}
    \cup {[kind |-> "http", status |-> s, content |-> NotJson] : s \in BodylessStatuses}
    \cup {[kind |-> "http", status |-> s, content |-> c] : s \in BodyStatuses, c \in Contents}

(* ----------------------------- transport ------------------------------- *)
\* response.raise_for_status() raising for server errors only.
raise_for_status_5xx(status) == 500 <= status /\ status < 600
\* response.raise_for_status(): requests raises HTTPError for 400..599.
raise_for_status(status) == 400 <= status /\ status < 600

HTTPError(s) == [type |-> "HTTPError", status |-> s]
ConnectionError == [type |-> "ConnectionError"]
JSONDecodeError == [type |-> "JSONDecodeError"]
KeyError(k) == [type |-> "KeyError", key |-> k]
TypeError == [type |-> "TypeError"]
ValidationError == [type |-> "ValidationError"]

\* response.json(): the parsed body, or JSONDecodeError.
response_json(resp) ==
    IF resp.content.json THEN Return(PyDict(resp.content.doc)) ELSE Raise(JSONDecodeError)

\* "if data": a dict is truthy unless it is empty; None is not.
Truthy(data) == data # PyNone /\ DOMAIN data # {}
\* The call handed to requests: the method, base_url + endpoint, the data.
Request(m, endpoint, d) == [method |-> m, url |-> endpoint, data |-> d]

\* post_wrapper sending the request again when the first attempt fails.
post_wrapper_retry(endpoint, data, resp) ==
    LET req == Request("POST", endpoint, IF Truthy(data) THEN json_dumps(data) ELSE PyNone)
        failed == resp.kind = "network" \/ raise_for_status(resp.status)
    IN  [sent |-> IF failed THEN <<req, req>> ELSE <<req>>,
         out  |-> IF resp.kind = "network" THEN Raise(ConnectionError)
                  ELSE IF raise_for_status(resp.status) THEN Raise(HTTPError(resp.status))
                  ELSE response_json(resp)]
\* post_wrapper(endpoint, data): one requests.post, raise_for_status, then
\* response.json() whatever the status.
post_wrapper(endpoint, data, resp) ==
    LET req == Request("POST", endpoint, IF Truthy(data) THEN json_dumps(data) ELSE PyNone)
    IN  [sent |-> <<req>>,
         out  |-> IF resp.kind = "network" THEN Raise(ConnectionError)
                  ELSE IF raise_for_status(resp.status) THEN Raise(HTTPError(resp.status))
                  ELSE response_json(resp)]

\* get_wrapper(endpoint): one requests.get, raise_for_status, then None for
\* 204 and response.json() otherwise.
get_wrapper(endpoint, resp) ==
    [sent |-> <<Request("GET", endpoint, PyNone)>>,
     out  |-> IF resp.kind = "network" THEN Raise(ConnectionError)
              ELSE IF raise_for_status(resp.status) THEN Raise(HTTPError(resp.status))
              ELSE IF resp.status # NO_CONTENT THEN response_json(resp)
              ELSE Return(PyNone)]

(* --------------------------- pydantic ---------------------------------- *)
\* No keyword arguments / no defaults.
NoFields == [f \in {} |-> None]
\* BaseModel.__init__(**kwargs) of a class with the declared `fields` and
\* `defaults`: a declared field without a value is a ValidationError, a
\* keyword that is no declared field is ignored (pydantic's default).
BaseModel(cls, fields, defaults, kwargs) ==
    IF \E f \in fields : f \notin DOMAIN kwargs /\ f \notin DOMAIN defaults
    THEN Raise(ValidationError)
    ELSE Return(PyModel(cls, [f \in fields |->
                    IF f \in DOMAIN kwargs THEN kwargs[f] ELSE defaults[f]]))
\* The first key of keys that d lacks (the lookup that raises KeyError),
\* or None.
FirstMissing(d, keys) ==
    IF \A i \in 1..Len(keys) : keys[i] \in DOMAIN d THEN None
    ELSE keys[CHOOSE i \in 1..Len(keys) :
                 keys[i] \notin DOMAIN d /\ \A j \in 1..(i - 1) : keys[j] \in DOMAIN d]

\* class ContentSummary(BaseModel)
ContentSummaryFields == {"id", "title", "type"}
ContentSummary(kwargs) == BaseModel("ContentSummary", ContentSummaryFields, NoFields, kwargs)
\* class GetAllContentResponse(BaseModel): results: List[ContentSummary];
\* each element of results is validated into a ContentSummary.
GetAllContentResponse(kwargs) ==
    IF "results" \notin DOMAIN kwargs THEN Raise(ValidationError)
    ELSE IF \E i \in 1..Len(kwargs.results) : ContentSummary(kwargs.results[i]).kind = "raise"
    THEN Raise(ValidationError)
    ELSE BaseModel("GetAllContentResponse", {"results"}, NoFields,
                   [kwargs EXCEPT !.results =
                       [i \in 1..Len(kwargs.results) |-> ContentSummary(kwargs.results[i]).value]])
\* class SpaceSummary(BaseModel): description defaults to None.
SpaceSummaryFields == {"id", "key", "name", "type", "status", "description"}
SpaceSummary(kwargs) ==
    BaseModel("SpaceSummary", SpaceSummaryFields, [description |-> None], kwargs)
\* class GetAllSpacesResponse(BaseModel): results: List[SpaceSummary]
GetAllSpacesResponse(kwargs) ==
    BaseModel("GetAllSpacesResponse", {"results"}, NoFields, kwargs)

(* ----------------------------- actions --------------------------------- *)
\* What one invocation leaves behind: the requests it issued, how its
\* transport call ended, how the action itself ended.
Invocation(t, out) == [sent |-> t.sent, tr |-> t.out, out |-> out]

\* The payload of create_page.
create_page_data(params) ==
    [spaceId  |-> params.spaceId,
     status   |-> "current",
     title    |-> params.title,
     parentId |-> params.parentId,
     body     |-> [representation |-> "storage", value |-> params.body]]
\* create_page(params): POST /wiki/api/v2/pages, the response passed through.
create_page(params, resp) ==
    LET t == post_wrapper(<<"/wiki/api/v2/pages">>, create_page_data(params), resp)
    IN  Invocation(t, t.out)

\* get_parent_id(params): the response (or the error) passed through.
get_parent_id(params, resp) ==
    LET t == get_wrapper(<<"/wiki/rest/api/content/", params.content_id, "?expand=ancestors">>, resp)
    IN  Invocation(t, t.out)

\* get_space_id swallowing a transport error into a message dict.
get_space_id_catching(params, resp) ==
    LET t == get_wrapper(<<"/wiki/rest/api/space/", params.space_key>>, resp)
    IN  Invocation(t, IF t.out.kind = "raise"
                      THEN Return(PyDict([message |-> str(t.out.exc)])) ELSE t.out)
\* get_space_id asking the content endpoint for the key.
get_space_id_wrong_endpoint(params, resp) ==
    LET t == get_wrapper(<<"/wiki/rest/api/content/", params.space_key>>, resp)
    IN  Invocation(t, t.out)
\* get_space_id(params): the response (or the error) passed through.
get_space_id(params, resp) ==
    LET t == get_wrapper(<<"/wiki/rest/api/space/", params.space_key>>, resp)
    IN  Invocation(t, t.out)

\* The body of get_all_content's try block.
get_all_content_try(t) ==
    IF t.out.kind = "raise" THEN t.out
    ELSE IF t.out.value.kind = "None" THEN Raise(TypeError)
    ELSE IF "results" \notin DOMAIN t.out.value.doc THEN Raise(KeyError("results"))
    ELSE GetAllContentResponse([results |-> t.out.value.doc.results])
\* get_all_content(): any exception becomes
\* GetAllContentResponse(results=[], message=str(e)).
get_all_content(resp) ==
    LET t == get_wrapper(<<"/wiki/rest/api/content">>, resp)
        r == get_all_content_try(t)
    IN  Invocation(t, IF r.kind = "raise"
                      THEN GetAllContentResponse([results |-> <<>>, message |-> str(r.exc)])
                      ELSE r)

\* get_space_details(request): the response passed through; any exception
\* becomes {'message': str(e)}.
get_space_details(request, resp) ==
    LET t == get_wrapper(<<"/wiki/rest/api/space/", request.space_key>>, resp)
    IN  Invocation(t, IF t.out.kind = "raise"
                      THEN Return(PyDict([message |-> str(t.out.exc)])) ELSE t.out)

\* The keyword arguments get_all_spaces reads from one space.
SpaceKeys == <<"id", "key", "name", "type", "status">>
\* The first space that lacks one of them, or 0.
FirstIllFormed(spaces) ==
    IF \A i \in 1..Len(spaces) : FirstMissing(spaces[i], SpaceKeys) = None THEN 0
    ELSE CHOOSE i \in 1..Len(spaces) :
             /\ FirstMissing(spaces[i], SpaceKeys) # None
             /\ \A j \in 1..(i - 1) : FirstMissing(spaces[j], SpaceKeys) = None
\* The list comprehension of get_all_spaces, built back to front.
space_summaries_reversed(spaces) ==
    [i \in 1..Len(spaces) |->
        SpaceSummary([k \in {"id", "key", "name", "type", "status"} |->
                        spaces[Len(spaces) + 1 - i][k]]).value]
\* The list comprehension of get_all_spaces: one SpaceSummary per space,
\* in order.
space_summaries(spaces) ==
    [i \in 1..Len(spaces) |->
        SpaceSummary([k \in {"id", "key", "name", "type", "status"} |-> spaces[i][k]]).value]
\* The body of get_all_spaces's try block.
get_all_spaces_try(t) ==
    IF t.out.kind = "raise" THEN t.out
    ELSE IF t.out.value.kind = "None" THEN Raise(TypeError)
    ELSE IF "results" \notin DOMAIN t.out.value.doc THEN Raise(KeyError("results"))
    ELSE LET spaces == t.out.value.doc.results
             bad == FirstIllFormed(spaces)
         IN  IF bad # 0 THEN Raise(KeyError(FirstMissing(spaces[bad], SpaceKeys)))
             ELSE GetAllSpacesResponse([results |-> space_summaries(spaces)])
\* get_all_spaces(): any exception becomes
\* GetAllSpacesResponse(results=[], message=str(e)).
get_all_spaces(resp) ==
    LET t == get_wrapper(<<"/wiki/rest/api/space">>, resp)
        r == get_all_spaces_try(t)
    IN  Invocation(t, IF r.kind = "raise"
                      THEN GetAllSpacesResponse([results |-> <<>>, message |-> str(r.exc)])
                      ELSE r)

\* The filter of get_available_parents keeping every page.
current_pages_unfiltered(pages) == pages
\* [page for page in pages if page["status"] == "current"]
current_pages(pages) == SelectSeq(pages, LAMBDA page : page.status = "current")
\* The body of get_available_parents's try block.
get_available_parents_try(t) ==
    IF t.out.kind = "raise" THEN t.out
    ELSE IF t.out.value.kind = "None" THEN Raise(TypeError)
    ELSE IF "results" \notin DOMAIN t.out.value.doc THEN Raise(KeyError("results"))
    ELSE LET pages == t.out.value.doc.results
         IN  IF \E i \in 1..Len(pages) : "status" \notin DOMAIN pages[i]
             THEN Raise(KeyError("status"))
             ELSE Return(PyDict([t.out.value.doc EXCEPT !.results = current_pages(pages)]))
\* get_available_parents raising what its try block raises.
get_available_parents_uncaught(request, resp) ==
    LET t == get_wrapper(<<"/wiki/api/v2/spaces/", request.space_id, "/pages">>, resp)
    IN  Invocation(t, get_available_parents_try(t))
\* get_available_parents(request): the response with its results filtered;
\* any exception becomes {'message': str(e)}.
get_available_parents(request, resp) ==
    LET t == get_wrapper(<<"/wiki/api/v2/spaces/", request.space_id, "/pages">>, resp)
        r == get_available_parents_try(t)
    IN  Invocation(t, IF r.kind = "raise"
                      THEN Return(PyDict([message |-> str(r.exc)])) ELSE r)

(* --------------------------- state machine ----------------------------- *)
VARIABLES
    act,    \* the action invoked last ("none" before the first invocation)
    arg,    \* its payload
    resp,   \* what the server answered
    sent,   \* the requests the invocation issued, in order
    tr,     \* how its transport call ended
    out,    \* how the action ended
    pc      \* "idle": the host may invoke an action; "done": one has ended
vars == <<act, arg, resp, sent, tr, out, pc>>

NoPayload == [none |-> TRUE]
CreatePageRequests ==
    [spaceId : {"1"}, title : {None, "T"}, parentId : {None, "7"}, body : Bodies]
ContentIds == [content_id : {"10", "11"}]
SpaceParamss == [space_key : {"S1", "S2"}]
GetAvailableParentsPayloads == [space_id : {1, 2}]

Init ==
    /\ act = "none"
    /\ arg = NoPayload
    /\ resp = NetworkFailure
    /\ sent = <<>>
    /\ tr = Return(PyNone)
    /\ out = Return(PyNone)
    /\ pc = "idle"

\* The host invokes one registered action at a time; nothing of an
\* invocation outlives it.
\* The invocation of action a with payload p, answered by r, ended as inv.
Ended(a, p, r, inv) ==
    /\ pc' = "done"
    /\ act' = a
    /\ arg' = p
    /\ resp' = r
    /\ sent' = inv.sent
    /\ tr' = inv.tr
    /\ out' = inv.out

CreatePage ==
    /\ pc = "idle"
    /\ \E p \in CreatePageRequests, r \in Responses :
           Ended("create_page", p, r, create_page(p, r))
GetParentId ==
    /\ pc = "idle"
    /\ \E p \in ContentIds, r \in Responses :
           Ended("get_parent_id", p, r, get_parent_id(p, r))
GetSpaceId ==
    /\ pc = "idle"
    /\ \E p \in SpaceParamss, r \in Responses :
           Ended("get_space_id", p, r, get_space_id(p, r))
GetAllContent ==
    /\ pc = "idle"
    /\ \E r \in Responses :
           Ended("get_all_content", NoPayload, r, get_all_content(r))
GetSpaceDetails ==
    /\ pc = "idle"
    /\ \E p \in SpaceParamss, r \in Responses :
           Ended("get_space_details", p, r, get_space_details(p, r))
GetAllSpaces ==
    /\ pc = "idle"
    /\ \E r \in Responses :
           Ended("get_all_spaces", NoPayload, r, get_all_spaces(r))
GetAvailableParents ==
    /\ pc = "idle"
    /\ \E p \in GetAvailableParentsPayloads, r \in Responses :
           Ended("get_available_parents", p, r, get_available_parents(p, r))

\* The host takes the outcome; the invocation's values are gone.
HostCollects ==
    /\ pc = "done"
    /\ pc' = "idle"
    /\ act' = "none"
    /\ arg' = NoPayload
    /\ resp' = NetworkFailure
    /\ sent' = <<>>
    /\ tr' = Return(PyNone)
    /\ out' = Return(PyNone)

Next ==
    \/ CreatePage
    \/ GetParentId
    \/ GetSpaceId
    \/ GetAllContent
    \/ GetSpaceDetails
    \/ GetAllSpaces
    \/ GetAvailableParents
    \/ HostCollects

Spec == Init /\ [][Next]_vars

(* ------------------------------ claims --------------------------------- *)
Ended_(a) == pc = "done" /\ act = a
Is2xx(status) == 200 <= status /\ status <= 299
ReturnsNone(o) == o.kind = "return" /\ o.value.kind = "None"
ReturnsDict(o) == o.kind = "return" /\ o.value.kind = "dict"
\* o returns a dict whose only key is message, holding str(e)
ReturnsMessage(o) ==
    /\ ReturnsDict(o)
    /\ DOMAIN o.value.doc = {"message"}
    /\ o.value.doc.message[1] = "str"

\* C1: every create_page invocation sends exactly one POST to
\* /wiki/api/v2/pages, and the payload the server reads from it has
\* body.value equal to the request's body, character for character, and
\* body.representation equal to "storage".
C1_PostBodyVerbatim ==
    Ended_("create_page") =>
        /\ Len(sent) = 1
        /\ sent[1].method = "POST"
        /\ sent[1].url = <<"/wiki/api/v2/pages">>
        /\ sent[1].data # PyNone
        /\ json_loads(sent[1].data).body.value = arg.body
        /\ json_loads(sent[1].data).body.representation = "storage"
\* a body made of the two characters JSON escapes, without title or parent
C1_Witness ==
    /\ Ended_("create_page")
    /\ arg.body = <<Quote, Backslash>>
    /\ arg.title = None
    /\ arg.parentId = None
    /\ sent[1].data.body.value = <<Backslash, Quote, Backslash, Backslash>>

\* C2: the results list of the value get_available_parents returns never
\* holds a page whose status is not "current".
C2_OnlyCurrentPages ==
    (Ended_("get_available_parents") /\ ReturnsDict(out) /\ "results" \in DOMAIN out.value.doc) =>
        \A i \in 1..Len(out.value.doc.results) :
            /\ "status" \in DOMAIN out.value.doc.results[i]
            /\ out.value.doc.results[i].status = "current"
\* the API listed a draft page and a current one; only the current is kept
C2_Witness ==
    /\ Ended_("get_available_parents")
    /\ resp.kind = "http" /\ resp.status = 200 /\ resp.content.json
    /\ "results" \in DOMAIN resp.content.doc
    /\ Len(resp.content.doc.results) = 2
    /\ resp.content.doc.results[1].id = "11"
    /\ resp.content.doc.results[2].id = "10"
    /\ ReturnsDict(out)
    /\ Len(out.value.doc.results) = 1

\* C3: a response with status 204 makes the transport return None, for a
\* GET (get_wrapper) as for a POST (post_wrapper): neither an empty object
\* nor an error.
C3_NoContentReturnsNone ==
    (pc = "done" /\ resp.kind = "http" /\ resp.status = NO_CONTENT) => ReturnsNone(tr)

C6_EmptyResultsWithMessage ==
    (pc = "done" /\ act \in {"get_all_spaces", "get_all_content"} /\ tr.kind = "raise") =>
        /\ out.kind = "return"
        /\ out.value.kind = "model"
        /\ out.value.fields.results = <<>>
        /\ "message" \in DOMAIN out.value.fields

\* The failures C7 lists: a transport error, a null/204 response and, in
\* get_available_parents, a response without results or a page without
\* status.
C7_TransportError == tr.kind = "raise"
C7_NullResponse == ReturnsNone(tr)
C7_BadList ==
    /\ act = "get_available_parents"
    /\ ReturnsDict(tr)
    /\ \/ "results" \notin DOMAIN tr.value.doc
       \/ \E i \in 1..Len(tr.value.doc.results) : "status" \notin DOMAIN tr.value.doc.results[i]
\* C7 as stated: get_space_details and get_available_parents never raise,
\* and for each listed failure the value returned is a dict whose only key
\* is message.
C7_FailuresBecomeMessage ==
    (pc = "done" /\ act \in {"get_space_details", "get_available_parents"}) =>
        /\ out.kind = "return"
        /\ (C7_TransportError \/ C7_NullResponse \/ C7_BadList) => ReturnsMessage(out)
        /\ C7_TransportError => out.value.doc.message = str(tr.exc)
\* C7 as amended: neither action raises; a transport error becomes a dict
\* whose only key is message (holding the error text) in both; a null/204
\* response, a response without results and a page without status become
\* such a dict in get_available_parents; get_space_details returns None
\* for a null/204 response.
C7_FailuresBecomeMessageOrNone ==
    (pc = "done" /\ act \in {"get_space_details", "get_available_parents"}) =>
        /\ out.kind = "return"
        /\ C7_TransportError => (ReturnsMessage(out) /\ out.value.doc.message = str(tr.exc))
        /\ C7_BadList => ReturnsMessage(out)
        /\ (C7_NullResponse /\ act = "get_available_parents") => ReturnsMessage(out)
        /\ (C7_NullResponse /\ act = "get_space_details") => ReturnsNone(out)
\* get_available_parents answered 200 with a page that has no status
C7_Witness ==
    /\ Ended_("get_available_parents")
    /\ resp.kind = "http" /\ resp.status = 200
    /\ C7_BadList
    /\ "results" \in DOMAIN tr.value.doc
    /\ out = Return(PyDict([message |-> str(KeyError("status"))]))

\* the one GET of get_space_id
C8_TheRequest == <<Request("GET", <<"/wiki/rest/api/space/", arg.space_key>>, PyNone)>>
C9_WellFormed(e) == \A i \in 1..Len(SpaceKeys) : SpaceKeys[i] \in DOMAIN e
\* C9: on a 200 response whose results are n well-formed space entries,
\* get_all_spaces returns n SpaceSummary records in the order of the
\* response, the i-th with the id, key, name, type and status of the i-th
\* entry.
C9_SpacesInOrder ==
    (/\ Ended_("get_all_spaces")
     /\ resp.kind = "http" /\ resp.status = 200 /\ resp.content.json
     /\ "results" \in DOMAIN resp.content.doc
     /\ \A i \in 1..Len(resp.content.doc.results) : C9_WellFormed(resp.content.doc.results[i])) =>
        /\ out.kind = "return"
        /\ out.value.kind = "model"
        /\ out.value.cls = "GetAllSpacesResponse"
        /\ Len(out.value.fields.results) = Len(resp.content.doc.results)
        /\ \A i \in 1..Len(resp.content.doc.results) :
              /\ out.value.fields.results[i].cls = "SpaceSummary"
              /\ \A k \in 1..Len(SpaceKeys) :
                    out.value.fields.results[i].fields[SpaceKeys[k]]
                        = resp.content.doc.results[i][SpaceKeys[k]]
\* two different spaces, S2 listed before S1
C9_Witness ==
    /\ Ended_("get_all_spaces")
    /\ resp.kind = "http" /\ resp.status = 200 /\ resp.content.json
    /\ "results" \in DOMAIN resp.content.doc
    /\ Len(resp.content.doc.results) = 2
    /\ C9_WellFormed(resp.content.doc.results[1]) /\ resp.content.doc.results[1].key = "S2"
    /\ C9_WellFormed(resp.content.doc.results[2]) /\ resp.content.doc.results[2].key = "S1"
    /\ out.kind = "return"
    /\ Len(out.value.fields.results) = 2
    /\ out.value.fields.results[1].fields.key = "S2"

=============================================================================
